---------------------------- MODULE Spec2Model ----------------------------
(***************************************************************************)
(* A model of the Paynow client library: the Signature Engine              *)
(* (src/src/utils/signatureCalculator.ts) and the Gateway Client           *)
(* (src/src/client/paymentClient.ts and the copy of the client held in     *)
(* src/src/utils/signatureCalculator.ts, lines 99-262).                    *)
(*                                                                         *)
(* Strings are sequences of UTF-16 code units; a code unit is written as   *)
(* a one-character TLA+ string ("A"), or, outside ASCII, as a named token  *)
(* ("U+00E9").  HMAC-SHA256 followed by Base64 is a symbolic,              *)
(* collision-free term over the key and the UTF-8 bytes of the message.    *)
(***************************************************************************)
EXTENDS Integers, Sequences, FiniteSets, TLC

(***************************************************************************)
(* Code units                                                              *)
(***************************************************************************)

\* The printable ASCII code units in ascending order, from U+0020.
Ascii ==
  << " ", "!", "\"", "#", "$", "%", "&", "'", "(", ")", "*", "+", ",", "-",
     ".", "/", "0", "1", "2", "3", "4", "5", "6", "7", "8", "9", ":", ";",
     "<", "=", ">", "?", "@", "A", "B", "C", "D", "E", "F", "G", "H", "I",
     "J", "K", "L", "M", "N", "O", "P", "Q", "R", "S", "T", "U", "V", "W",
     "X", "Y", "Z", "[", "\\", "]", "^", "_", "U+0060", "a", "b", "c", "d",
         "e",
     "f", "g", "h", "i", "j", "k", "l", "m", "n", "o", "p", "q", "r", "s",
     "t", "u", "v", "w", "x", "y", "z", "{", "|", "}", "~" >>

AsciiUnits == { Ascii[i] : i \in 1..Len(Ascii) }

\* The code units outside ASCII that the model's inputs use: a BMP letter,
\* a surrogate pair's two halves, and the replacement character.
HighSurrogate == "U+D83D"
LowSurrogate == "U+DE00"
NonAsciiUnits == { "U+00E9", HighSurrogate, LowSurrogate, "U+FFFD" }

\* The numeric value of a code unit (what Array.prototype.sort compares).
CodeUnit(c) ==
  CASE c = "U+00E9" -> 233
    [] c = HighSurrogate -> 55357
    [] c = LowSurrogate -> 56832
    [] c = "U+FFFD" -> 65533
    [] OTHER -> 31 + (CHOOSE i \in 1..Len(Ascii) : Ascii[i] = c)

Digits == << "0", "1", "2", "3", "4", "5", "6", "7", "8", "9" >>

IsDigit(c) == \E i \in 1..10 : Digits[i] = c

DigitValue(c) == (CHOOSE i \in 1..10 : Digits[i] = c) - 1

\* Number -> decimal string, as the template literal and JSON.stringify
\* render a non-negative integer.
RECURSIVE DecimalDigits(_)
DecimalDigits(n) ==
  IF n < 10 THEN << Digits[n + 1] >>
  ELSE DecimalDigits(n \div 10) \o << Digits[(n % 10) + 1] >>

\* Decimal string -> number.
RECURSIVE DecimalValue(_)
DecimalValue(s) ==
  IF s = << >> THEN 0
  ELSE 10 * DecimalValue(SubSeq(s, 1, Len(s) - 1)) + DigitValue(s[Len(s)])

\* s < t in the order of String comparison: code unit by code unit, a proper
\* prefix first.
RECURSIVE StrLess(_, _)
StrLess(s, t) ==
  IF t = << >> THEN FALSE
  ELSE IF s = << >> THEN TRUE
  ELSE IF CodeUnit(Head(s)) # CodeUnit(Head(t))
       THEN CodeUnit(Head(s)) < CodeUnit(Head(t))
  ELSE StrLess(Tail(s), Tail(t))

\* Concatenation of a sequence of strings with a separator (Array.join).
RECURSIVE Join(_, _)
Join(parts, sep) ==
  IF parts = << >> THEN << >>
  ELSE IF Len(parts) = 1 THEN parts[1]
  ELSE parts[1] \o sep \o Join(Tail(parts), sep)

(***************************************************************************)
(* JavaScript objects and JSON values                                      *)
(***************************************************************************)

\* A JSON value: t is its type, s its text (a string's code units, a
\* number's decimal digits, a literal's name), kids an object's properties
\* << key, value >> or an array's elements << << >>, value >>.
JStr(s) == [t |-> "str", s |-> s, kids |-> << >>]
JNum(n) == [t |-> "num", s |-> DecimalDigits(n), kids |-> << >>]
JLit(name) == [t |-> "lit", s |-> name, kids |-> << >>]
JObj(props) == [t |-> "obj", s |-> << >>, kids |-> props]
JArr(elems) == [t |-> "arr", s |-> << >>, kids |-> elems]
JNull == JLit(<< "n", "u", "l", "l" >>)
\* The value of a property that is absent.
Undefined == [t |-> "undefined", s |-> << >>, kids |-> << >>]

\* An array index in the sense of OrdinaryOwnPropertyKeys: the canonical
\* decimal string of an integer below 2^32 - 1.
IsArrayIndex(k) ==
  /\ k # << >>
  /\ \A i \in 1..Len(k) : IsDigit(k[i])
  /\ (Len(k) > 1 => k[1] # "0")
  /\ Len(k) <= 9

HasKey(props, k) == \E i \in 1..Len(props) : props[i][1] = k

\* obj[k], Undefined when absent.
Get(props, k) ==
  IF HasKey(props, k)
  THEN props[CHOOSE i \in 1..Len(props) : props[i][1] = k][2]
  ELSE Undefined

\* obj[k] = v.  An object's own keys are kept in the order the language
\* enumerates them: array indices ascending by value, then the other keys
\* in the order they were first set.
ObjSet(props, k, v) ==
  IF HasKey(props, k)
  THEN [i \in 1..Len(props) |->
          IF props[i][1] = k THEN << k, v >> ELSE props[i]]
  ELSE IF IsArrayIndex(k)
  THEN LET before == { i \in 1..Len(props) :
                         /\ IsArrayIndex(props[i][1])
                         /\ DecimalValue(props[i][1]) < DecimalValue(k) }
           n == Cardinality(before)
       IN SubSeq(props, 1, n) \o << << k, v >> >>
            \o SubSeq(props, n + 1, Len(props))
  ELSE Append(props, << k, v >>)

\* An object literal or a series of assignments: the pairs set in order.
RECURSIVE FromPairs(_)
FromPairs(pairs) ==
  IF pairs = << >> THEN << >>
  ELSE ObjSet(FromPairs(SubSeq(pairs, 1, Len(pairs) - 1)),
              pairs[Len(pairs)][1], pairs[Len(pairs)][2])

\* The key that names no property of a plain object when it is assigned:
\* Object.prototype has an accessor of this name.
ProtoKey == << "_", "_", "p", "r", "o", "t", "o", "_", "_" >>

\* target[k] = v on a plain object.  The assignment of ProtoKey runs the
\* setter of Object.prototype, which changes the prototype when v is an
\* object or null and does nothing otherwise: in neither case does the
\* target get an own property.
Assign(props, k, v) == IF k = ProtoKey THEN props ELSE ObjSet(props, k, v)

\* A series of assignments on an empty object, in order.
RECURSIVE AssignAll(_)
AssignAll(pairs) ==
  IF pairs = << >> THEN << >>
  ELSE Assign(AssignAll(SubSeq(pairs, 1, Len(pairs) - 1)),
              pairs[Len(pairs)][1], pairs[Len(pairs)][2])

\* Object.keys(obj)
ObjectKeys(props) == [i \in 1..Len(props) |-> props[i][1]]

\* Insertion of a key into a sorted array of keys.
RECURSIVE InsertSorted(_, _)
InsertSorted(keys, k) ==
  IF keys = << >> THEN << k >>
  ELSE IF StrLess(k, Head(keys)) THEN << k >> \o keys
  ELSE << Head(keys) >> \o InsertSorted(Tail(keys), k)

\* Array.prototype.sort() without a comparator: ascending by code units.
RECURSIVE SortKeys(_)
SortKeys(keys) ==
  IF keys = << >> THEN << >>
  ELSE InsertSorted(SortKeys(Tail(keys)), Head(keys))

\* The code units JSON.stringify writes for the unit at position i of a
\* string: a quote and a backslash are escaped, a surrogate that is not
\* half of a pair is written as a \u escape (well-formed JSON.stringify),
\* every other unit of the model's alphabet is written as it is.
QuoteUnit(s, i) ==
  CASE s[i] = "\"" -> << "\\", "\"" >>
    [] s[i] = "\\" -> << "\\", "\\" >>
    [] s[i] = HighSurrogate ->
         IF i < Len(s) /\ s[i + 1] = LowSurrogate THEN << s[i] >>
         ELSE << "\\", "u", "d", "8", "3", "d" >>
    [] s[i] = LowSurrogate ->
         IF i > 1 /\ s[i - 1] = HighSurrogate THEN << s[i] >>
         ELSE << "\\", "u", "d", "e", "0", "0" >>
    [] OTHER -> << s[i] >>

\* The concatenation of a sequence of strings, by halves.
RECURSIVE Flatten(_)
Flatten(parts) ==
  IF Len(parts) = 0 THEN << >>
  ELSE IF Len(parts) = 1 THEN parts[1]
  ELSE LET mid == Len(parts) \div 2
       IN Flatten(SubSeq(parts, 1, mid))
            \o Flatten(SubSeq(parts, mid + 1, Len(parts)))

\* JSON.stringify of a string.
Quote(s) ==
  << "\"" >> \o Flatten([i \in 1..Len(s) |-> QuoteUnit(s, i)]) \o << "\"" >>

\* JSON.stringify(value), without indentation.  A property whose value is
\* undefined is left out; an undefined array element is written null.
RECURSIVE JsonStringify(_)
JsonStringify(v) ==
  CASE v.t = "str" -> Quote(v.s)
    [] v.t = "num" -> v.s
    [] v.t = "lit" -> v.s
    [] v.t = "obj" ->
         LET kept == SelectSeq(v.kids, LAMBDA p : p[2].t # "undefined")
             parts == [i \in 1..Len(kept) |->
                         Quote(kept[i][1]) \o << ":" >>
                           \o JsonStringify(kept[i][2])]
         IN << "{" >> \o Join(parts, << "," >>) \o << "}" >>
    [] v.t = "arr" ->
         LET parts == [i \in 1..Len(v.kids) |->
                         IF v.kids[i][2].t = "undefined" THEN JNull.s
                         ELSE JsonStringify(v.kids[i][2])]
         IN << "[" >> \o Join(parts, << "," >>) \o << "]" >>

(***************************************************************************)
(* HMAC-SHA256 over UTF-8 bytes                                            *)
(***************************************************************************)

\* The UTF-8 bytes of a string, as Buffer.from(s, 'utf8') encodes it.  The
\* byte of an ASCII unit is written as the unit; a surrogate that is not
\* half of a pair is encoded as U+FFFD; the four bytes of a pair are written
\* at its first half.
Utf8Unit(s, i) ==
  CASE s[i] = "U+00E9" -> << "xC3", "xA9" >>
    [] s[i] = "U+FFFD" -> << "xEF", "xBF", "xBD" >>
    [] s[i] = HighSurrogate ->
         IF i < Len(s) /\ s[i + 1] = LowSurrogate
         THEN << "xF0", "x9F", "x98", "x80" >>
         ELSE << "xEF", "xBF", "xBD" >>
    [] s[i] = LowSurrogate ->
         IF i > 1 /\ s[i - 1] = HighSurrogate
         THEN << >>
         ELSE << "xEF", "xBF", "xBD" >>
    [] OTHER -> << s[i] >>

Utf8(s) == Flatten([i \in 1..Len(s) |-> Utf8Unit(s, i)])

\* crypto.createHmac('sha256', key).update(data, 'utf8').digest('base64'):
\* the Base64 text of the digest, as a term that names the key's bytes and
\* the message's bytes.  Its delimiters are no code units, so two terms are
\* equal exactly when their keys and messages are, and no term equals a
\* string of code units.
HmacSha256Base64(key, data) ==
  << "base64(hmac-sha256(" >> \o Utf8(key) \o << ")(" >> \o Utf8(data)
    \o << "))" >>

(***************************************************************************)
(* SignatureCalculator                                                     *)
(***************************************************************************)

\* A copy that sets the keys of obj in the order obj enumerates them,
\* without sorting them: the fault that would make a signature depend on
\* the order of insertion.
UnsortedCopy(obj) ==
  LET keys == ObjectKeys(obj)
  IN AssignAll([i \in 1..Len(keys) |-> << keys[i], Get(obj, keys[i]) >>])

\* The object the forEach loop fills: the keys of obj, sorted, assigned in
\* that order on an empty object.
SortedCopy(obj) ==
  LET keys == SortKeys(ObjectKeys(obj))
  IN AssignAll([i \in 1..Len(keys) |-> << keys[i], Get(obj, keys[i]) >>])

\* JSON.stringify(payload) of calculateSignature.
CanonicalPayload(headers, parameters, body) ==
  JsonStringify(JObj(FromPairs(<<
    << << "h", "e", "a", "d", "e", "r", "s" >>, JObj(SortedCopy(headers)) >>,
    << << "p", "a", "r", "a", "m", "e", "t", "e", "r", "s" >>,
       JObj(SortedCopy(parameters)) >>,
    << << "b", "o", "d", "y" >>, JStr(body) >> >>)))

\* calculateSignature(headers, parameters, body) of a calculator built
\* with signatureKey.
calculateSignature(signatureKey, headers, parameters, body) ==
  HmacSha256Base64(signatureKey, CanonicalPayload(headers, parameters, body))

\* calculateSignatureSimple(data)
calculateSignatureSimple(signatureKey, data) ==
  HmacSha256Base64(signatureKey, data)

\* A verification against the signature of the API scheme, the payload of
\* headers, parameters and body, in place of the signature of the data
\* alone.
verifySignatureOfPayload(signatureKey, receivedSignature, data) ==
  calculateSignature(signatureKey, << >>, << >>, data) = receivedSignature

\* verifySignature(receivedSignature, data)
verifySignature(signatureKey, receivedSignature, data) ==
  calculateSignatureSimple(signatureKey, data) = receivedSignature

\* calculateSignature(data) of the calculator at the head of the file,
\* which signs the data alone.
calculateSignatureOfData(signatureKey, data) ==
  HmacSha256Base64(signatureKey, data)

\* verifySignature(receivedSignature, data) of the calculator at the head
\* of the file.
verifySignatureOfData(signatureKey, receivedSignature, data) ==
  calculateSignatureOfData(signatureKey, data) = receivedSignature

(***************************************************************************)
(* Literals of the source                                                  *)
(***************************************************************************)

K_ApiKey == << "A", "p", "i", "-", "K", "e", "y" >>
K_IdempotencyKey ==
  << "I", "d", "e", "m", "p", "o", "t", "e", "n", "c", "y", "-", "K", "e",
     "y" >>
K_Signature == << "S", "i", "g", "n", "a", "t", "u", "r", "e" >>
K_ContentType ==
  << "C", "o", "n", "t", "e", "n", "t", "-", "T", "y", "p", "e" >>
V_ApplicationJson ==
  << "a", "p", "p", "l", "i", "c", "a", "t", "i", "o", "n", "/", "j", "s",
     "o", "n" >>
ProductionURL ==
  << "h", "t", "t", "p", "s", ":", "/", "/", "a", "p", "i", ".", "p", "a",
     "y", "n", "o", "w", ".", "p", "l", "/", "v", "3" >>
SandboxURL ==
  << "h", "t", "t", "p", "s", ":", "/", "/", "a", "p", "i", ".", "s", "a",
     "n", "d", "b", "o", "x", ".", "p", "a", "y", "n", "o", "w", ".", "p",
     "l", "/", "v", "3" >>
PaymentsPath == << "/", "p", "a", "y", "m", "e", "n", "t", "s" >>
K_paymentId == << "p", "a", "y", "m", "e", "n", "t", "I", "d" >>
K_redirectUrl == << "r", "e", "d", "i", "r", "e", "c", "t", "U", "r", "l" >>
K_status == << "s", "t", "a", "t", "u", "s" >>
K_errors == << "e", "r", "r", "o", "r", "s" >>
K_field == << "f", "i", "e", "l", "d" >>
K_message == << "m", "e", "s", "s", "a", "g", "e" >>
ApiErrorPrefix ==
  << "P", "a", "y", "n", "o", "w", " ", "A", "P", "I", " ", "E", "r", "r",
     "o", "r", ":", " " >>
HttpPrefix == << "H", "T", "T", "P", " " >>
RequestTimeout ==
  << "R", "e", "q", "u", "e", "s", "t", " ", "t", "i", "m", "e", "o", "u",
     "t" >>
UnexpectedError ==
  << "U", "n", "e", "x", "p", "e", "c", "t", "e", "d", " ", "e", "r", "r",
     "o", "r", " ", "o", "c", "c", "u", "r", "r", "e", "d" >>
InvalidNotification ==
  << "I", "n", "v", "a", "l", "i", "d", " ", "n", "o", "t", "i", "f", "i",
     "c", "a", "t", "i", "o", "n", " ", "d", "a", "t", "a", " ", "f", "o",
     "r", "m", "a", "t" >>
ECONNABORTED ==
  << "E", "C", "O", "N", "N", "A", "B", "O", "R", "T", "E", "D" >>
\* The timeout of the axios instance, in milliseconds.
TimeoutMs == 30000

(***************************************************************************)
(* Values of the language                                                  *)
(***************************************************************************)

\* ToBoolean(v)
Truthy(v) ==
  CASE v.t = "undefined" -> FALSE
    [] v.t = "str" -> v.s # << >>
    [] v.t = "num" -> v.s # << "0" >>
    [] v.t = "lit" -> v.s = << "t", "r", "u", "e" >>
    [] OTHER -> TRUE

\* v === null or v === undefined: a property access on v throws a TypeError.
IsNullish(v) == v.t = "undefined" \/ v = JNull

\* v[k] for a v that is not nullish: a property of an object, undefined on
\* a primitive or an array (for the keys the source reads).
Property(v, k) == IF v.t = "obj" THEN Get(v.kids, k) ELSE Undefined

\* v?.[k]
OptionalProperty(v, k) == IF IsNullish(v) THEN Undefined ELSE Property(v, k)

\* `${v}` for the value of a property: a string as it is, a number in
\* decimal, a literal by its name, an absent property as "undefined".
TemplateString(v) ==
  CASE v.t = "undefined" -> << "u", "n", "d", "e", "f", "i", "n", "e", "d" >>
    [] v.t = "str" -> v.s
    [] v.t = "num" -> v.s
    [] v.t = "lit" -> v.s
    [] v.t = "obj" -> << "[", "o", "b", "j", "e", "c", "t", " ", "O", "b", "j",
        "e", "c", "t", "]" >>
    [] OTHER -> Join([i \in 1..Len(v.kids) |-> v.kids[i][2].s], << "," >>)

\* An Error with a message; NoError where none was thrown.
Error(message) == [thrown |-> TRUE, message |-> message]
NoError == [thrown |-> FALSE, message |-> << >>]

(***************************************************************************)
(* State                                                                   *)
(***************************************************************************)

VARIABLES
  config,      \* the PaynowConfig the client was constructed with
  client,      \* the PaynowClient: apiKey, environment, apiClient
  calculator,  \* the client's SignatureCalculator: signatureKey
  uuids,       \* how many values uuidv4() has returned
  calls,       \* the createPayment and getPaymentStatus calls, in call order
  requests,    \* the HTTP requests handed to the transport, in issue order
  last,        \* the latest verifyNotification or parseNotification call
  signed       \* the calculateSignature calls made on a calculator directly

vars ==
  << config, client, calculator, uuids, calls, requests, last, signed >>

\* How many createPayment and getPaymentStatus calls a run makes.
MaxCalls == 2

(***************************************************************************)
(* PaynowClient: construction                                              *)
(***************************************************************************)

\* new SignatureCalculator(signatureKey)
NewSignatureCalculator(signatureKey) == [signatureKey |-> signatureKey]

\* The repository holds the class PaynowClient twice, and a client is an
\* instance of one of them: "body-signed" is the class of
\* src/src/client/paymentClient.ts, "header-signed" the class of
\* src/src/utils/signatureCalculator.ts (lines 127-262).  The two differ in
\* createPayment alone.
Revisions == { "body-signed", "header-signed" }

\* A constructor that sends the signature key with every request, as a
\* default header of the transport.
NewPaynowClientSendingKey(cfg, revision) ==
  LET environment ==
        IF cfg.environment = "undefined" THEN "sandbox" ELSE cfg.environment
      baseURL ==
        IF environment = "production" THEN ProductionURL ELSE SandboxURL
  IN [revision |-> revision,
      apiKey |-> cfg.apiKey,
      environment |-> environment,
      apiClient |->
        [baseURL |-> baseURL,
         headers |-> FromPairs(<<
           << K_ContentType, JStr(V_ApplicationJson) >>,
           << K_ApiKey, JStr(cfg.apiKey) >>,
           << << "X", "-", "K", "e", "y" >>, JStr(cfg.signatureKey) >> >>),
         timeout |-> TimeoutMs]]

\* A constructor that takes an environment left out of the configuration
\* for production.
NewPaynowClientDefaultingToProduction(cfg, revision) ==
  LET environment ==
        IF cfg.environment = "undefined" THEN "production"
        ELSE cfg.environment
      baseURL ==
        IF environment = "production" THEN ProductionURL ELSE SandboxURL
  IN [revision |-> revision,
      apiKey |-> cfg.apiKey,
      environment |-> environment,
      apiClient |->
        [baseURL |-> baseURL,
         headers |-> FromPairs(<<
           << K_ContentType, JStr(V_ApplicationJson) >>,
           << K_ApiKey, JStr(cfg.apiKey) >> >>),
         timeout |-> TimeoutMs]]

\* The fields the constructor of PaynowClient sets.  An environment left
\* out of the configuration is "undefined".
NewPaynowClient(cfg, revision) ==
  LET environment ==
        IF cfg.environment = "undefined" THEN "sandbox" ELSE cfg.environment
      baseURL ==
        IF environment = "production" THEN ProductionURL ELSE SandboxURL
  IN [revision |-> revision,
      apiKey |-> cfg.apiKey,
      environment |-> environment,
      apiClient |->
        [baseURL |-> baseURL,
         headers |-> FromPairs(<<
           << K_ContentType, JStr(V_ApplicationJson) >>,
           << K_ApiKey, JStr(cfg.apiKey) >> >>),
         timeout |-> TimeoutMs]]

(***************************************************************************)
(* The transport (axios)                                                   *)
(***************************************************************************)

RECURSIVE StripTrailingSlashes(_)
StripTrailingSlashes(s) ==
  IF s # << >> /\ s[Len(s)] = "/"
  THEN StripTrailingSlashes(SubSeq(s, 1, Len(s) - 1))
  ELSE s

RECURSIVE StripLeadingSlashes(_)
StripLeadingSlashes(s) ==
  IF s # << >> /\ Head(s) = "/" THEN StripLeadingSlashes(Tail(s)) ELSE s

\* The URL of a request of an instance with a baseURL.
CombineURLs(baseURL, url) ==
  StripTrailingSlashes(baseURL) \o << "/" >> \o StripLeadingSlashes(url)

\* The request an instance issues for post(url, data, {headers}) and for
\* get(url): the instance's headers with the call's set over them, and the
\* data, when there is one, serialized by JSON.stringify.
AxiosRequest(apiClient, method, url, data, headers) ==
  [method |-> method,
   url |-> CombineURLs(apiClient.baseURL, url),
   headers |-> FromPairs(apiClient.headers \o headers),
   hasBody |-> data.t # "undefined",
   body |-> IF data.t # "undefined" THEN JsonStringify(data) ELSE << >>,
   timeout |-> apiClient.timeout]

\* What the transport settles a request with: a response whose status
\* passes validateStatus (resolved), or an AxiosError (rejected), with the
\* response when there was one, and with a code and a message.
Resolved(status, data) ==
  [isAxiosError |-> FALSE, hasResponse |-> TRUE, status |-> status,
   data |-> data, code |-> << >>, message |-> << >>]

BadStatus(status, data) ==
  [isAxiosError |-> TRUE, hasResponse |-> TRUE, status |-> status,
   data |-> data, code |-> << "E", "R", "R", "_", "B", "A", "D", "_", "R", "E",
       "Q", "U", "E", "S", "T" >>,
   message |-> << "R", "e", "q", "u", "e", "s", "t", " ", "f", "a", "i", "l",
       "e", "d", " ", "w", "i", "t", "h", " ", "s", "t", "a", "t", "u", "s",
       " ", "c", "o", "d", "e", " " >> \o DecimalDigits(status)]

NoResponse(code, message) ==
  [isAxiosError |-> TRUE, hasResponse |-> FALSE, status |-> 0,
   data |-> Undefined, code |-> code, message |-> message]

\* The TypeError of a property access on null or undefined.
TypeError ==
  [isAxiosError |-> FALSE, hasResponse |-> FALSE, status |-> 0,
   data |-> Undefined, code |-> << >>,
   message |-> << "C", "a", "n", "n", "o", "t", " ", "r", "e", "a", "d", " ",
       "p", "r", "o", "p", "e", "r", "t", "i", "e", "s", " ", "o", "f", " ",
       "n", "u", "l", "l" >>]

\* uuidv4(): the n-th value drawn.  A version 4 UUID is 122 random bits;
\* the generator is taken never to return a value twice.
uuidv4(n) == << "u", "u", "i", "d", "-" >> \o DecimalDigits(n)

(***************************************************************************)
(* PaynowClient: handleError                                               *)
(***************************************************************************)

\* One entry of the error list, as the map callback renders it.
ErrorMessage(err) ==
  (IF Truthy(Property(err, K_field))
   THEN TemplateString(Property(err, K_field)) \o << ":", " " >>
   ELSE << >>)
    \o TemplateString(Property(err, K_message))

\* An error handler that looks at the status of the response before the
\* errors its body lists.
handleErrorStatusFirst(error) ==
  IF error.isAxiosError
  THEN LET errors ==
             IF error.hasResponse
             THEN OptionalProperty(error.data, K_errors)
             ELSE Undefined
       IN IF error.hasResponse /\ error.status # 0
          THEN Error(ApiErrorPrefix \o HttpPrefix
                       \o DecimalDigits(error.status))
          ELSE IF Truthy(errors)
          THEN Error(ApiErrorPrefix
                 \o Join([i \in 1..Len(errors.kids) |->
                            ErrorMessage(errors.kids[i][2])],
                         << ",", " " >>))
          ELSE IF error.code = ECONNABORTED
          THEN Error(ApiErrorPrefix \o RequestTimeout)
          ELSE Error(ApiErrorPrefix \o error.message)
  ELSE Error(UnexpectedError)

\* handleError(error).  The errors property of a response is taken to be,
\* when truthy, the array its type PaynowApiError declares.
handleError(error) ==
  IF error.isAxiosError
  THEN LET errors ==
             IF error.hasResponse
             THEN OptionalProperty(error.data, K_errors)
             ELSE Undefined
       IN IF Truthy(errors)
          THEN Error(ApiErrorPrefix
                 \o Join([i \in 1..Len(errors.kids) |->
                            ErrorMessage(errors.kids[i][2])],
                         << ",", " " >>))
          ELSE IF error.hasResponse /\ error.status # 0
          THEN Error(ApiErrorPrefix \o HttpPrefix
                       \o DecimalDigits(error.status))
          ELSE IF error.code = ECONNABORTED
          THEN Error(ApiErrorPrefix \o RequestTimeout)
          ELSE Error(ApiErrorPrefix \o error.message)
  ELSE Error(UnexpectedError)

(***************************************************************************)
(* PaynowClient: createPayment and getPaymentStatus                        *)
(***************************************************************************)

\* The request of createPayment as src/src/utils/signatureCalculator.ts
\* (lines 162-184) builds it: the signature covers the Api-Key and
\* Idempotency-Key headers, no query parameters, and the serialized body.
CreatePaymentHeaderSignedRequest(c, calc, idempotencyKey, paymentRequest) ==
  LET requestData == JsonStringify(paymentRequest)
      signatureHeaders == FromPairs(<<
        << K_ApiKey, JStr(c.apiKey) >>,
        << K_IdempotencyKey, JStr(idempotencyKey) >> >>)
      signature ==
        calculateSignature(calc.signatureKey, signatureHeaders, << >>,
                           requestData)
  IN AxiosRequest(c.apiClient, "POST", PaymentsPath, paymentRequest, <<
       << K_Signature, JStr(signature) >>,
       << K_IdempotencyKey, JStr(idempotencyKey) >> >>)

\* The request of createPayment as src/src/client/paymentClient.ts (lines
\* 43-52) builds it: calculateSignature is called with the serialized body
\* alone, the one-argument form of the calculator.
CreatePaymentBodySignedRequest(c, calc, idempotencyKey, paymentRequest) ==
  LET requestData == JsonStringify(paymentRequest)
      signature == calculateSignatureOfData(calc.signatureKey, requestData)
  IN AxiosRequest(c.apiClient, "POST", PaymentsPath, paymentRequest, <<
       << K_Signature, JStr(signature) >>,
       << K_IdempotencyKey, JStr(idempotencyKey) >> >>)

\* The request of getPaymentStatus.
GetPaymentStatusRequest(c, paymentId) ==
  AxiosRequest(c.apiClient, "GET", PaymentsPath \o << "/" >> \o paymentId,
               Undefined, << >>)

\* A request that has not been settled.
NoOutcome ==
  [isAxiosError |-> FALSE, hasResponse |-> FALSE, status |-> 0,
   data |-> Undefined, code |-> << >>, message |-> << >>]

\* A call that has issued its request and awaits it.
Awaiting(op, paymentRequest, paymentId, idempotencyKey) ==
  [op |-> op, paymentRequest |-> paymentRequest, paymentId |-> paymentId,
   idempotencyKey |-> idempotencyKey, pc |-> "awaiting",
   outcome |-> NoOutcome, value |-> Undefined, error |-> NoError]

\* createPayment after the await: the response mapped to a PaymentResponse,
\* or the error of the try block handed to handleError and thrown.
createPaymentSettled(call, outcome) ==
  IF outcome.isAxiosError
  THEN [call EXCEPT !.pc = "thrown", !.outcome = outcome,
                    !.error = handleError(outcome)]
  ELSE IF IsNullish(outcome.data)
  THEN [call EXCEPT !.pc = "thrown", !.outcome = outcome,
                    !.error = handleError(TypeError)]
  ELSE [call EXCEPT !.pc = "returned", !.outcome = outcome,
                    !.value = JObj(FromPairs(<<
                      << K_paymentId, Property(outcome.data, K_paymentId) >>,
                      << K_redirectUrl,
                         Property(outcome.data, K_redirectUrl) >>,
                      << K_status, Property(outcome.data, K_status) >> >>))]

\* A getPaymentStatus whose catch block returns nothing in place of
\* throwing.
getPaymentStatusSwallowing(call, outcome) ==
  IF outcome.isAxiosError
  THEN [call EXCEPT !.pc = "returned", !.outcome = outcome]
  ELSE [call EXCEPT !.pc = "returned", !.outcome = outcome,
                    !.value = outcome.data]

\* getPaymentStatus after the await.
getPaymentStatusSettled(call, outcome) ==
  IF outcome.isAxiosError
  THEN [call EXCEPT !.pc = "thrown", !.outcome = outcome,
                    !.error = handleError(outcome)]
  ELSE [call EXCEPT !.pc = "returned", !.outcome = outcome,
                    !.value = outcome.data]

\* The requests a call issues when it starts.
IssuedBy(call, n, request) == << [call |-> n, http |-> request] >>

\* The request of createPayment, by the class of the client.
CreatePaymentRequest(c, calc, idempotencyKey, paymentRequest) ==
  IF c.revision = "header-signed"
  THEN CreatePaymentHeaderSignedRequest(c, calc, idempotencyKey,
                                        paymentRequest)
  ELSE CreatePaymentBodySignedRequest(c, calc, idempotencyKey,
                                      paymentRequest)

\* A createPayment that sends the key of the first call with every call.
createPaymentReusingKey(paymentRequest) ==
  /\ Len(calls) < MaxCalls
  /\ LET idempotencyKey == uuidv4(1)
         call == Awaiting("createPayment", paymentRequest, << >>,
                          idempotencyKey)
     IN /\ uuids' = uuids + 1
        /\ calls' = Append(calls, call)
        /\ requests' = requests \o IssuedBy(call, Len(calls) + 1,
             CreatePaymentRequest(client, calculator, idempotencyKey,
                                  paymentRequest))
  /\ UNCHANGED << config, client, calculator, last, signed >>

\* A createPayment that sets its idempotency key on the default headers of
\* the transport, where every later request of the client picks it up.
createPaymentSettingDefaults(paymentRequest) ==
  /\ Len(calls) < MaxCalls
  /\ LET idempotencyKey == uuidv4(uuids + 1)
         call == Awaiting("createPayment", paymentRequest, << >>,
                          idempotencyKey)
     IN /\ uuids' = uuids + 1
        /\ calls' = Append(calls, call)
        /\ requests' = requests \o IssuedBy(call, Len(calls) + 1,
             CreatePaymentRequest(client, calculator, idempotencyKey,
                                  paymentRequest))
        /\ client' = [client EXCEPT !.apiClient.headers =
                        ObjSet(@, K_IdempotencyKey, JStr(idempotencyKey))]
  /\ UNCHANGED << config, calculator, last, signed >>

\* createPayment(paymentRequest), to the await.
createPayment(paymentRequest) ==
  /\ Len(calls) < MaxCalls
  /\ LET idempotencyKey == uuidv4(uuids + 1)
         call == Awaiting("createPayment", paymentRequest, << >>,
                          idempotencyKey)
     IN /\ uuids' = uuids + 1
        /\ calls' = Append(calls, call)
        /\ requests' = requests \o IssuedBy(call, Len(calls) + 1,
             CreatePaymentRequest(client, calculator, idempotencyKey,
                                  paymentRequest))
  /\ UNCHANGED << config, client, calculator, last, signed >>

\* getPaymentStatus(paymentId), to the await.
getPaymentStatus(paymentId) ==
  /\ Len(calls) < MaxCalls
  /\ LET call == Awaiting("getPaymentStatus", Undefined, paymentId, << >>)
     IN /\ calls' = Append(calls, call)
        /\ requests' = requests \o IssuedBy(call, Len(calls) + 1,
             GetPaymentStatusRequest(client, paymentId))
  /\ UNCHANGED << config, client, calculator, uuids, last, signed >>

\* What a call does when the transport settles its request.
Settled(call, outcome) ==
  IF call.op = "createPayment"
  THEN createPaymentSettled(call, outcome)
  ELSE getPaymentStatusSettled(call, outcome)

\* A catch block that sends the request of the call once more when it
\* timed out.
ReissuedOnTimeout(call, n, outcome) ==
  IF outcome.isAxiosError /\ outcome.code = ECONNABORTED
  THEN SelectSeq(requests, LAMBDA r : r.call = n)
  ELSE << >>

\* The requests a call issues after the await: the catch block throws what
\* handleError returns, and neither branch calls the transport again.
IssuedOnSettle(call, n, outcome) == << >>

\* The transport settles the request of call n, and the call resumes: it
\* returns or throws.
Settle(n, outcome) ==
  /\ n \in 1..Len(calls)
  /\ calls[n].pc = "awaiting"
  /\ calls' = [calls EXCEPT ![n] = Settled(calls[n], outcome)]
  /\ requests' = requests \o IssuedOnSettle(calls[n], n, outcome)
  /\ UNCHANGED << config, client, calculator, uuids, last, signed >>

(***************************************************************************)
(* Inputs                                                                  *)
(***************************************************************************)

ApiKeys == { << "a", "k" >> }

SignatureKeys == { << "k", "1" >>, << "k", "2" >> }

Environments == { "sandbox", "production", "undefined" }

Configs ==
  [apiKey : ApiKeys, signatureKey : SignatureKeys,
   environment : Environments]

PaymentRequests ==
  { JObj(FromPairs(<<
      << << "a", "m", "o", "u", "n", "t" >>, JNum(1000) >>,
      << << "e", "x", "t", "e", "r", "n", "a", "l", "I", "d" >>, JStr(<< "o",
          "1" >>) >>,
      << << "d", "e", "s", "c", "r", "i", "p", "t", "i", "o", "n" >>,
          JStr(<< "d" >>) >>,
      << << "b", "u", "y", "e", "r" >>, JObj(FromPairs(<<
           << << "e", "m", "a", "i", "l" >>, JStr(<< "a", "@",
               "b" >>) >> >>)) >> >>)),
    JObj(FromPairs(<<
      << << "e", "x", "t", "e", "r", "n", "a", "l", "I", "d" >>, JStr(<< "o",
          "2" >>) >>,
      << << "a", "m", "o", "u", "n", "t" >>, JNum(1234) >>,
      << << "d", "e", "s", "c", "r", "i", "p", "t", "i", "o", "n" >>,
          JStr(<< "U+00E9", "\"" >>) >>,
      << << "b", "u", "y", "e", "r" >>, JObj(FromPairs(<<
           << << "e", "m", "a", "i", "l" >>, JStr(<< "c", "@",
               "d" >>) >> >>)) >> >>)) }

PaymentIds == { << "P", "1" >> }

ErrorEntry(field, message) ==
  JObj(FromPairs(<< << K_field, JStr(field) >>,
                    << K_message, JStr(message) >> >>))

ErrorList(entries) ==
  JObj(FromPairs(<<
    << K_errors, JArr([i \in 1..Len(entries) |-> << << >>, entries[i] >>]) >>
  >>))

\* 201 with the payment.
Created ==
  Resolved(201, JObj(FromPairs(<<
    << K_paymentId, JStr(<< "P", "1" >>) >>,
    << K_redirectUrl, JStr(<< "h", "t", "t", "p", "s", ":", "/", "/",
        "r" >>) >>,
    << K_status, JStr(<< "N", "E", "W" >>) >> >>)))

\* 200 with a payment that has no redirectUrl.
OkWithoutRedirect ==
  Resolved(200, JObj(FromPairs(<<
    << K_paymentId, JStr(<< "P", "1" >>) >>,
    << K_status, JStr(<< "P", "E", "N", "D", "I", "N", "G" >>) >> >>)))

\* 200 with the body null.
OkNull == Resolved(200, JNull)

\* 400 with one field-level error.
Invalid ==
  BadStatus(400, ErrorList(<<
    ErrorEntry(<< "a", "m", "o", "u", "n", "t" >>, << "m", "u", "s", "t", " ",
        "b", "e", " ", "p", "o", "s", "i", "t", "i", "v", "e" >>) >>))

\* 400 with an error that names no field, and one that does.
InvalidWithoutField ==
  BadStatus(400, ErrorList(<<
    JObj(FromPairs(<< << K_message, JStr(<< "b", "a", "d", " ", "r", "e", "q",
        "u", "e", "s", "t" >>) >> >>)),
    ErrorEntry(<< "a", "m", "o", "u", "n", "t" >>, << "m", "u", "s", "t", " ",
        "b", "e", " ", "p", "o", "s", "i", "t", "i", "v", "e" >>) >>))

\* 500 with an empty body.
ServerError == BadStatus(500, JStr(<< >>))

\* No response within the timeout.
TimedOut == NoResponse(ECONNABORTED, << "t", "i", "m", "e", "o", "u", "t", " ",
    "o", "f", " ", "3", "0", "0", "0", "0", "m", "s", " ", "e", "x", "c", "e",
    "e", "d", "e", "d" >>)

\* No connection.
Refused == NoResponse(<< "E", "C", "O", "N", "N", "R", "E", "F", "U", "S", "E",
    "D" >>, << "c", "o", "n", "n", "e", "c", "t", " ", "E", "C", "O", "N", "N",
    "R", "E", "F", "U", "S", "E", "D" >>)

Outcomes ==
  { Created, OkWithoutRedirect, OkNull, Invalid, InvalidWithoutField,
    ServerError, TimedOut, Refused }

\* No verifyNotification or parseNotification call yet.
NoCall ==
  [op |-> "none", signature |-> << >>, notificationData |-> << >>,
   pc |-> "none", verdict |-> FALSE, value |-> Undefined, error |-> NoError]

(***************************************************************************)
(* The client's HTTP operations                                            *)
(***************************************************************************)

Init ==
  /\ config \in Configs
  /\ client \in { NewPaynowClient(config, revision) : revision \in Revisions }
  /\ calculator = NewSignatureCalculator(config.signatureKey)
  /\ uuids = 0
  /\ calls = << >>
  /\ requests = << >>
  /\ last = NoCall
  /\ signed = << >>

Next ==
  \/ \E paymentRequest \in PaymentRequests : createPayment(paymentRequest)
  \/ \E paymentId \in PaymentIds : getPaymentStatus(paymentId)
  \/ \E n \in 1..MaxCalls, outcome \in Outcomes : Settle(n, outcome)

Spec == Init /\ [][Next]_vars

(***************************************************************************)
(* Properties of the HTTP operations                                       *)
(***************************************************************************)

\* The places in the request log of the requests call n issued.
RequestsOf(n) == { i \in 1..Len(requests) : requests[i].call = n }

\* The text of a header of a request, << >> when it has none.
Header(http, name) == Get(http.headers, name).s

HasHeader(http, name) == HasKey(http.headers, name)

\* The API signature of a request, computed from what the request itself
\* carries: its Api-Key and Idempotency-Key headers, no query parameters,
\* and its body.
ApiSignatureOf(http) ==
  calculateSignature(calculator.signatureKey,
    FromPairs(<<
      << K_ApiKey, JStr(Header(http, K_ApiKey)) >>,
      << K_IdempotencyKey, JStr(Header(http, K_IdempotencyKey)) >> >>),
    << >>, http.body)

\* C4: the Signature header of every createPayment request is the API
\* signature over the header set {Api-Key, Idempotency-Key}, no query
\* parameters and the serialized body, all as transmitted in that request.
C4_SignatureCoversHeadersAndBody ==
  \A i \in 1..Len(requests) :
    requests[i].http.method = "POST" =>
      /\ HasHeader(requests[i].http, K_Signature)
      /\ HasHeader(requests[i].http, K_IdempotencyKey)
      /\ requests[i].http.body =
           JsonStringify(calls[requests[i].call].paymentRequest)
      /\ Header(requests[i].http, K_Signature)
           = ApiSignatureOf(requests[i].http)

\* C4, for the clients of the class in
\* src/src/utils/signatureCalculator.ts alone.
C4_HeaderSignedClient ==
  client.revision = "header-signed" => C4_SignatureCoversHeadersAndBody

\* C5: every createPayment call sends the idempotency key it drew for
\* itself, and no two requests ever issued carry the same Idempotency-Key.
C5_FreshIdempotencyKeys ==
  /\ \A n \in 1..Len(calls) :
       calls[n].op = "createPayment" =>
         \A i \in RequestsOf(n) :
           /\ HasHeader(requests[i].http, K_IdempotencyKey)
           /\ Header(requests[i].http, K_IdempotencyKey)
                = calls[n].idempotencyKey
  /\ \A i, j \in 1..Len(requests) :
       /\ i # j
       /\ HasHeader(requests[i].http, K_IdempotencyKey)
       /\ HasHeader(requests[j].http, K_IdempotencyKey)
       => Header(requests[i].http, K_IdempotencyKey)
            # Header(requests[j].http, K_IdempotencyKey)

\* Two createPayment calls with the same PaymentRequest, the first of
\* which failed, have both issued their requests.
C5_Witness ==
  \E m, n \in 1..Len(calls) :
    /\ m < n
    /\ calls[m].op = "createPayment" /\ calls[n].op = "createPayment"
    /\ calls[m].paymentRequest = calls[n].paymentRequest
    /\ calls[m].pc = "thrown"
    /\ RequestsOf(m) # {} /\ RequestsOf(n) # {}

\* The error list of a response, Undefined when the outcome has none.
ErrorListOf(outcome) ==
  IF outcome.hasResponse
  THEN OptionalProperty(outcome.data, K_errors)
  ELSE Undefined

HasErrorList(outcome) == ErrorListOf(outcome).t = "arr"

\* The entries of an error list, each rendered by Render, joined by ", ".
RenderedErrors(outcome, Render(_)) ==
  LET entries == ErrorListOf(outcome).kids
  IN Join([i \in 1..Len(entries) |-> Render(entries[i][2])], << ",", " " >>)

\* An entry rendered as 'field: message'.
FieldColonMessage(err) ==
  TemplateString(Property(err, K_field)) \o << ":", " " >>
    \o TemplateString(Property(err, K_message))

\* An entry rendered as 'field: message' when it names a field, and as its
\* message alone when it names none.
FieldColonMessageIfField(err) ==
  IF Property(err, K_field).t = "str" /\ Property(err, K_field).s # << >>
  THEN FieldColonMessage(err)
  ELSE TemplateString(Property(err, K_message))

\* The message the four-step precedence gives a failed call: the error
\* list, else the HTTP status, else the timeout, else the network error.
MessageByPrecedence(outcome, Render(_)) ==
  IF HasErrorList(outcome)
  THEN ApiErrorPrefix \o RenderedErrors(outcome, Render)
  ELSE IF outcome.hasResponse
  THEN ApiErrorPrefix \o HttpPrefix \o DecimalDigits(outcome.status)
  ELSE IF outcome.code = ECONNABORTED
  THEN ApiErrorPrefix \o RequestTimeout
  ELSE ApiErrorPrefix \o outcome.message

\* C6 as stated: the message of every failed createPayment and
\* getPaymentStatus call is chosen by the four-step precedence, each entry
\* of an error list rendered as 'field: message'.
C6_MessageByPrecedence ==
  \A n \in 1..Len(calls) :
    calls[n].pc = "thrown" =>
      calls[n].error.message
        = MessageByPrecedence(calls[n].outcome, FieldColonMessage)

\* C6 as amended: when the transport rejected the request, the message is
\* chosen by the four-step precedence, an entry of the error list rendered
\* as 'field: message' when it names a field and as its message alone when
\* it names none; when the call failed although the transport resolved, the
\* message is the fixed text 'Unexpected error occurred'.
C6_MessageByPrecedenceOfTransportErrors ==
  \A n \in 1..Len(calls) :
    calls[n].pc = "thrown" =>
      /\ calls[n].error.thrown
      /\ calls[n].error.message =
           IF calls[n].outcome.isAxiosError
           THEN MessageByPrecedence(calls[n].outcome,
                                    FieldColonMessageIfField)
           ELSE UnexpectedError

\* A call failed on a response that has both an error list and a status,
\* one on a response with a status alone, one on a timeout, one on a
\* network error, and one although the transport resolved.
C6_Witness ==
  /\ \E n \in 1..Len(calls) :
       /\ calls[n].pc = "thrown"
       /\ calls[n].outcome = InvalidWithoutField
  /\ \E n \in 1..Len(calls) :
       /\ calls[n].pc = "thrown"
       /\ calls[n].outcome \in { ServerError, TimedOut, Refused, OkNull }

\* The key and the message of an HMAC term.
HmacSplit(term) == CHOOSE i \in 1..Len(term) : term[i] = ")("
HmacKey(term) == SubSeq(term, 2, HmacSplit(term) - 1)
HmacMessage(term) == SubSeq(term, HmacSplit(term) + 1, Len(term) - 1)

\* needle occurs in hay.
Contains(hay, needle) ==
  \E i \in 0..(Len(hay) - Len(needle)) :
    SubSeq(hay, i + 1, i + Len(needle)) = needle

\* A request without its Signature header.
WithoutSignature(http) ==
  [http EXCEPT !.headers =
     SelectSeq(http.headers, LAMBDA h : h[1] # K_Signature)]

\* The request call would have issued had the client been constructed
\* with the signature key k, all else equal.
RequestUnderKey(call, k) ==
  LET other == NewPaynowClient([config EXCEPT !.signatureKey = k],
                               client.revision)
  IN IF call.op = "createPayment"
     THEN CreatePaymentRequest(other, NewSignatureCalculator(k),
                               call.idempotencyKey, call.paymentRequest)
     ELSE GetPaymentStatusRequest(other, call.paymentId)

\* No part of a request but the key of its signature's HMAC holds or
\* depends on the signature key.
KeyOnlyKeysTheHmac(http, call) ==
  /\ ~Contains(http.url, calculator.signatureKey)
  /\ ~Contains(http.body, calculator.signatureKey)
  /\ \A h \in 1..Len(http.headers) :
       /\ ~Contains(http.headers[h][1], calculator.signatureKey)
       /\ http.headers[h][1] # K_Signature =>
            ~Contains(http.headers[h][2].s, calculator.signatureKey)
  /\ HasHeader(http, K_Signature) =>
       /\ HmacKey(Header(http, K_Signature)) = Utf8(calculator.signatureKey)
       /\ ~Contains(HmacMessage(Header(http, K_Signature)),
                    calculator.signatureKey)
  /\ \A k \in SignatureKeys :
       /\ WithoutSignature(RequestUnderKey(call, k)) = WithoutSignature(http)
       /\ HasHeader(http, K_Signature) =>
            HmacMessage(Header(RequestUnderKey(call, k), K_Signature))
              = HmacMessage(Header(http, K_Signature))

\* C9: no request the client issues (URL, headers, body) and no message of
\* an error it throws holds the signature key, which enters a request as
\* the key of the HMAC of its Signature header and nowhere else.  Stated of
\* every step: of the requests the step issues and of the messages the
\* calls hold after it.  The caller's and the provider's own texts are
\* taken not to spell the key.
C9_SignatureKeyNotTransmitted ==
  [][/\ \A i \in (Len(requests) + 1)..Len(requests') :
          KeyOnlyKeysTheHmac(requests'[i].http, calls'[requests'[i].call])
     /\ \A n \in 1..Len(calls') :
          ~Contains(calls'[n].error.message, calculator.signatureKey)]_vars

\* A createPayment request and a getPaymentStatus request were issued, and
\* a call has thrown.
C9_Witness ==
  /\ \E i, j \in 1..Len(requests) :
       /\ requests[i].http.method = "POST"
       /\ requests[j].http.method = "GET"
  /\ \E n \in 1..Len(calls) : calls[n].pc = "thrown"

\* C10: every createPayment and getPaymentStatus call has issued exactly
\* one request, whatever became of it, and a call whose request the
\* transport rejected has thrown one error, whose message names the
\* timeout when the request timed out.
C10_OneRequestPerCall ==
  /\ \A i \in 1..Len(requests) : requests[i].call \in 1..Len(calls)
  /\ \A n \in 1..Len(calls) :
       /\ Cardinality(RequestsOf(n)) = 1
       /\ calls[n].outcome.isAxiosError =>
            /\ calls[n].pc = "thrown"
            /\ calls[n].error.thrown
            /\ calls[n].outcome = TimedOut =>
                 calls[n].error.message = ApiErrorPrefix \o RequestTimeout

\* A call's request timed out and the call threw; a later call was made
\* after that, and its request failed too.
C10_Witness ==
  \E m, n \in 1..Len(calls) :
    /\ m < n
    /\ calls[m].outcome = TimedOut /\ calls[m].pc = "thrown"
    /\ calls[n].outcome = Refused /\ calls[n].pc = "thrown"

(***************************************************************************)
(* JSON.parse                                                              *)
(***************************************************************************)

HexDigits ==
  << "0", "1", "2", "3", "4", "5", "6", "7", "8", "9", "a", "b", "c", "d",
     "e", "f" >>

UpperHexDigits == << "A", "B", "C", "D", "E", "F" >>

IsHexDigit(c) ==
  \/ \E i \in 1..Len(HexDigits) : HexDigits[i] = c
  \/ \E i \in 1..Len(UpperHexDigits) : UpperHexDigits[i] = c

HexValue(c) ==
  IF \E i \in 1..Len(HexDigits) : HexDigits[i] = c
  THEN (CHOOSE i \in 1..Len(HexDigits) : HexDigits[i] = c) - 1
  ELSE (CHOOSE i \in 1..Len(UpperHexDigits) : UpperHexDigits[i] = c) + 9

\* The code unit of a numeric value: a unit of the alphabet where it is
\* one, else a token that spells the value.
UnitOfCode(n) ==
  CASE n >= 32 /\ n <= 126 -> Ascii[n - 31]
    [] n = 233 -> "U+00E9"
    [] n = 55357 -> HighSurrogate
    [] n = 56832 -> LowSurrogate
    [] n = 65533 -> "U+FFFD"
    [] OTHER -> "U+#" \o ToString(n)

\* What a parse step yields: whether it succeeded, the value, and the
\* position after it.
Parsed(value, next) == [ok |-> TRUE, value |-> value, next |-> next]
SyntaxError == [ok |-> FALSE, value |-> Undefined, next |-> 0]

\* The text has unit c at position i.
At(text, i, c) == i >= 1 /\ i <= Len(text) /\ text[i] = c

StartsWith(text, i, word) ==
  /\ i + Len(word) - 1 <= Len(text)
  /\ SubSeq(text, i, i + Len(word) - 1) = word

\* The first position from i on that holds no white space.
SkipWhiteSpace(text, i) ==
  LET rest == { j \in i..Len(text) : text[j] # " " }
  IN IF rest = {} THEN Len(text) + 1
     ELSE CHOOSE j \in rest : \A q \in rest : j <= q

\* The first position from i on that holds no digit.
SkipDigits(text, i) ==
  LET rest == { j \in i..Len(text) : ~IsDigit(text[j]) }
  IN IF rest = {} THEN Len(text) + 1
     ELSE CHOOSE j \in rest : \A q \in rest : j <= q

\* How many backslashes stand immediately before position j.
BackslashesBefore(text, j) ==
  LET runs == { m \in 0..(j - 1) : \A q \in 1..m : text[j - q] = "\\" }
  IN CHOOSE m \in runs : \A q \in runs : q <= m

\* Position p holds a backslash that starts an escape.
StartsEscape(text, p) ==
  /\ At(text, p, "\\")
  /\ BackslashesBefore(text, p) % 2 = 0

\* Position p holds the unit that follows the backslash of an escape.
IsEscaped(text, p) == p > 1 /\ StartsEscape(text, p - 1)

\* Position p holds one of the four hex digits of a \u escape.
InUnicodeEscape(text, p) ==
  \E q \in (p - 4)..(p - 1) :
    q >= 1 /\ IsEscaped(text, q) /\ text[q] = "u"

\* The units position p of a string literal's content stands for; the
\* units of an escape are given at its last position.
DecodedAt(text, p) ==
  IF InUnicodeEscape(text, p)
  THEN IF IsEscaped(text, p - 4) /\ text[p - 4] = "u"
       THEN << UnitOfCode(4096 * HexValue(text[p - 3])
                            + 256 * HexValue(text[p - 2])
                            + 16 * HexValue(text[p - 1])
                            + HexValue(text[p])) >>
       ELSE << >>
  ELSE IF StartsEscape(text, p) THEN << >>
  ELSE IF IsEscaped(text, p)
  THEN CASE text[p] = "u" -> << >>
         [] text[p] = "n" -> << UnitOfCode(10) >>
         [] text[p] = "r" -> << UnitOfCode(13) >>
         [] text[p] = "t" -> << UnitOfCode(9) >>
         [] text[p] = "b" -> << UnitOfCode(8) >>
         [] text[p] = "f" -> << UnitOfCode(12) >>
         [] OTHER -> << text[p] >>
  ELSE << text[p] >>

\* The content between the quotes at i and j is well formed: every escape
\* is one of the grammar's, and a \u has its four hex digits.
ContentOk(text, i, j) ==
  \A p \in (i + 1)..(j - 1) :
    IsEscaped(text, p) /\ ~InUnicodeEscape(text, p) =>
      \/ text[p] \in { "\"", "\\", "/", "b", "f", "n", "r", "t" }
      \/ /\ text[p] = "u"
         /\ p + 4 <= j - 1
         /\ \A q \in (p + 1)..(p + 4) : IsHexDigit(text[q])

\* A string literal that starts at i.
ParseString(text, i) ==
  IF ~At(text, i, "\"") THEN SyntaxError
  ELSE LET closers == { j \in (i + 1)..Len(text) :
                          text[j] = "\"" /\ ~IsEscaped(text, j) }
       IN IF closers = {} THEN SyntaxError
          ELSE LET j == CHOOSE c \in closers : \A q \in closers : c <= q
               IN IF ContentOk(text, i, j)
                  THEN Parsed(JStr(Flatten([p \in 1..(j - i - 1) |->
                                              DecodedAt(text, i + p)])),
                              j + 1)
                  ELSE SyntaxError

\* A number that starts at i: an integer, a fraction, an exponent.  Its
\* value is kept as its text.
ParseNumber(text, i) ==
  LET int == IF At(text, i, "-") THEN i + 1 ELSE i
      afterInt ==
        IF At(text, int, "0") THEN int + 1 ELSE SkipDigits(text, int)
      afterFraction ==
        IF At(text, afterInt, ".")
             /\ SkipDigits(text, afterInt + 1) > afterInt + 1
        THEN SkipDigits(text, afterInt + 1)
        ELSE afterInt
      exp == IF At(text, afterFraction + 1, "+")
                  \/ At(text, afterFraction + 1, "-")
             THEN afterFraction + 2 ELSE afterFraction + 1
      afterExponent ==
        IF (At(text, afterFraction, "e") \/ At(text, afterFraction, "E"))
             /\ SkipDigits(text, exp) > exp
        THEN SkipDigits(text, exp)
        ELSE afterFraction
  IN IF afterInt = int THEN SyntaxError
     ELSE Parsed([t |-> "num", s |-> SubSeq(text, i, afterExponent - 1),
                  kids |-> << >>], afterExponent)

RECURSIVE ParseValue(_, _)
RECURSIVE ParseMembers(_, _, _)
RECURSIVE ParseElements(_, _, _)

\* The members of an object from position i on, after the properties
\* props; i is at the start of a member.
ParseMembers(text, i, props) ==
  LET key == ParseString(text, i)
      colon == SkipWhiteSpace(text, key.next)
      value == ParseValue(text, SkipWhiteSpace(text, colon + 1))
      after == SkipWhiteSpace(text, value.next)
      set == ObjSet(props, key.value.s, value.value)
  IN IF ~key.ok \/ ~At(text, colon, ":") THEN SyntaxError
     ELSE IF ~value.ok THEN SyntaxError
     ELSE IF At(text, after, "}") THEN Parsed(JObj(set), after + 1)
     ELSE IF At(text, after, ",")
     THEN ParseMembers(text, SkipWhiteSpace(text, after + 1), set)
     ELSE SyntaxError

\* The elements of an array from position i on, after the elements elems.
ParseElements(text, i, elems) ==
  LET value == ParseValue(text, i)
      after == SkipWhiteSpace(text, value.next)
      more == Append(elems, << << >>, value.value >>)
  IN IF ~value.ok THEN SyntaxError
     ELSE IF At(text, after, "]") THEN Parsed(JArr(more), after + 1)
     ELSE IF At(text, after, ",")
     THEN ParseElements(text, SkipWhiteSpace(text, after + 1), more)
     ELSE SyntaxError

\* A value that starts at i.
ParseValue(text, i) ==
  CASE At(text, i, "{") ->
         IF At(text, SkipWhiteSpace(text, i + 1), "}")
         THEN Parsed(JObj(<< >>), SkipWhiteSpace(text, i + 1) + 1)
         ELSE ParseMembers(text, SkipWhiteSpace(text, i + 1), << >>)
    [] At(text, i, "[") ->
         IF At(text, SkipWhiteSpace(text, i + 1), "]")
         THEN Parsed(JArr(<< >>), SkipWhiteSpace(text, i + 1) + 1)
         ELSE ParseElements(text, SkipWhiteSpace(text, i + 1), << >>)
    [] At(text, i, "\"") -> ParseString(text, i)
    [] StartsWith(text, i, << "t", "r", "u", "e" >>) -> Parsed(JLit(<< "t",
        "r", "u", "e" >>), i + 4)
    [] StartsWith(text, i, << "f", "a", "l", "s",
        "e" >>) -> Parsed(JLit(<< "f", "a", "l", "s", "e" >>), i + 5)
    [] StartsWith(text, i, << "n", "u", "l", "l" >>) -> Parsed(JNull, i + 4)
    [] OTHER -> ParseNumber(text, i)

\* JSON.parse(text): one value, white space around it, and nothing else;
\* ok is FALSE where JSON.parse throws a SyntaxError.
JsonParse(text) ==
  LET value == ParseValue(text, SkipWhiteSpace(text, 1))
  IN IF value.ok /\ SkipWhiteSpace(text, value.next) = Len(text) + 1
     THEN value
     ELSE SyntaxError

(***************************************************************************)
(* PaynowClient: verifyNotification and parseNotification                  *)
(***************************************************************************)

\* The fields of PaymentNotification, all required.
K_externalId == << "e", "x", "t", "e", "r", "n", "a", "l", "I", "d" >>
K_modifiedAt == << "m", "o", "d", "i", "f", "i", "e", "d", "A", "t" >>
NotificationFields == << K_paymentId, K_externalId, K_status, K_modifiedAt >>

\* A verification by crypto.timingSafeEqual, which throws when the two
\* signatures differ in length, as a received text that is no Base64 digest
\* does.
VerifyWithTimingSafeEqual(calc, signature, notificationData) ==
  LET expected ==
        calculateSignatureSimple(calc.signatureKey, notificationData)
      sameLength ==
        signature # << >> /\ signature[1] = expected[1]
  IN [op |-> "verifyNotification", signature |-> signature,
      notificationData |-> notificationData,
      pc |-> IF sameLength THEN "returned" ELSE "thrown",
      verdict |-> sameLength /\ expected = signature,
      value |-> Undefined,
      error |-> IF sameLength THEN NoError ELSE Error(<< "b", "y", "t", "e",
          " ", "l", "e", "n", "g", "t", "h" >>)]

\* verifyNotification(signature, notificationData): the call and what it
\* returned.
VerifyNotificationCall(calc, signature, notificationData) ==
  [op |-> "verifyNotification", signature |-> signature,
   notificationData |-> notificationData, pc |-> "returned",
   verdict |-> verifySignature(calc.signatureKey, signature,
                               notificationData),
   value |-> Undefined, error |-> NoError]

\* A parseNotification that keeps the identifiers and the status of what
\* it parsed, and drops modifiedAt.
ParseNotificationWithoutModifiedAt(notificationData) ==
  LET parsed == JsonParse(notificationData)
      kept ==
        IF parsed.ok /\ parsed.value.t = "obj"
        THEN JObj(SelectSeq(parsed.value.kids,
                            LAMBDA p : p[1] # K_modifiedAt))
        ELSE parsed.value
  IN [op |-> "parseNotification", signature |-> << >>,
      notificationData |-> notificationData,
      pc |-> IF parsed.ok THEN "returned" ELSE "thrown",
      verdict |-> FALSE,
      value |-> IF parsed.ok THEN kept ELSE Undefined,
      error |-> IF parsed.ok THEN NoError ELSE Error(InvalidNotification)]

\* parseNotification(notificationData): the call, and the value it
\* returned or the error it threw.
ParseNotificationCall(notificationData) ==
  LET parsed == JsonParse(notificationData)
  IN [op |-> "parseNotification", signature |-> << >>,
      notificationData |-> notificationData,
      pc |-> IF parsed.ok THEN "returned" ELSE "thrown",
      verdict |-> FALSE,
      value |-> IF parsed.ok THEN parsed.value ELSE Undefined,
      error |-> IF parsed.ok THEN NoError ELSE Error(InvalidNotification)]

verifyNotification(signature, notificationData) ==
  /\ last' = VerifyNotificationCall(calculator, signature, notificationData)
  /\ UNCHANGED << config, client, calculator, uuids, calls, requests,
                  signed >>

parseNotification(notificationData) ==
  /\ last' = ParseNotificationCall(notificationData)
  /\ UNCHANGED << config, client, calculator, uuids, calls, requests,
                  signed >>

\* The values of the enumeration PaymentStatus.
PaymentStatuses ==
  { << "N", "E", "W" >>, << "P", "E", "N", "D", "I", "N", "G" >>, << "C", "O",
      "N", "F", "I", "R", "M", "E", "D" >>, << "R", "E", "J", "E", "C", "T",
      "E", "D" >>, << "E", "R", "R", "O", "R" >>,
    << "E", "X", "P", "I", "R", "E", "D" >>, << "A", "B", "A", "N", "D", "O",
        "N", "E", "D" >> }

Notification(paymentId, externalId, status, modifiedAt) ==
  JObj(FromPairs(<<
    << K_paymentId, JStr(paymentId) >>,
    << K_externalId, JStr(externalId) >>,
    << K_status, JStr(status) >>,
    << K_modifiedAt, JStr(modifiedAt) >> >>))

\* Valid notifications: one of each status, the one of the tests, and one
\* whose texts hold a quote, a backslash, a letter outside ASCII, a
\* surrogate pair and a surrogate on its own.
Notifications ==
  { Notification(<< "P", "1" >>, << "o", "1" >>, status,
      << "T" >>) : status \in PaymentStatuses }
  \cup
  { Notification(<< "T", "E", "S", "T", "-", "1", "2", "3" >>, << "1", "2",
      "3", "4", "5" >>, << "C", "O", "N", "F", "I", "R", "M", "E", "D" >>,
                 << "2", "0", "2", "4", "-", "0", "1", "-", "0", "1", "T", "1",
                     "2", ":", "0", "0", ":", "0", "0", "Z" >>),
    Notification(<< "a", "\"", "b", "\\", "c" >>,
                 << "U+00E9", HighSurrogate, LowSurrogate, HighSurrogate >>,
                 << "N", "E", "W" >>, << "T" >>) }

\* A notification without one of its fields.
Without(notification, field) ==
  JObj(SelectSeq(notification.kids, LAMBDA p : p[1] # field))

\* Bodies that are valid JSON and lack a required field.
IncompleteBodies ==
  { << "{", "}" >>, << "n", "u", "l", "l" >>, << "4", "2" >> }
  \cup
  { JsonStringify(Without(Notification(<< "P", "1" >>, << "o", "1" >>, << "N",
      "E", "W" >>, << "T" >>),
                          NotificationFields[f])) : f \in 1..4 }

\* Bodies that are not valid JSON.
MalformedBodies ==
  { << "n", "o", "t", " ", "j", "s", "o", "n" >>, << >>, << "{", "\"", "p",
      "a", "y", "m", "e", "n", "t", "I", "d", "\"", ":", "\"", "P", "1",
      "\"" >>,
    << "{", "\"", "p", "a", "y", "m", "e", "n", "t", "I", "d", "\"", ":", "\"",
        "P", "1", "\"", ",", "}" >> }

\* A valid notification serialized with white space between its tokens.
SpacedBody ==
  << " ", "{", " ", "\"", "p", "a", "y", "m", "e", "n", "t", "I", "d", "\"",
      " ", ":", " ", "\"", "P", "1", "\"", ",", " ", "\"", "e", "x", "t", "e",
      "r", "n", "a", "l", "I", "d", "\"", " ", ":", " ", "\"", "o", "1", "\"",
      ",", " ", "\"", "s", "t", "a", "t", "u", "s", "\"", " ", ":", " ", "\"",
      "N", "E", "W", "\"", ",", " ", "\"", "m", "o", "d", "i", "f", "i", "e",
      "d", "A", "t", "\"", " ", ":", " ", "\"", "T", "\"", " ", "}", " " >>

NotificationBodies ==
  { JsonStringify(n) : n \in Notifications }
    \cup { SpacedBody } \cup IncompleteBodies \cup MalformedBodies

\* The bodies whose signatures are verified.
SignedBodies ==
  { << "{", "\"", "p", "a", "y", "m", "e", "n", "t", "I", "d", "\"", ":", "\"",
      "T", "E", "S", "T", "-", "1", "2", "3", "\"", ",", "\"", "s", "t", "a",
      "t", "u", "s", "\"", ":", "\"", "C", "O", "N", "F", "I", "R", "M", "E",
      "D", "\"", "}" >>, << >>,
    JsonStringify(Notification(<< "P", "1" >>, << "o", "1" >>, << "N", "E",
        "W" >>, << "T" >>)) }

\* The signatures received: the webhook signature of each body under each
\* key, the API signature of each body, and texts that are no signature.
ReceivedSignatures ==
  { calculateSignatureSimple(k, b) : k \in SignatureKeys, b \in SignedBodies }
    \cup { calculateSignature(k, << >>, << >>, b) :
             k \in SignatureKeys, b \in SignedBodies }
    \cup { << "w", "r", "o", "n", "g", "-", "s", "i", "g", "n", "a", "t", "u",
        "r", "e" >>, << >> }

NextNotify ==
  \/ \E signature \in ReceivedSignatures, notificationData \in SignedBodies :
       verifyNotification(signature, notificationData)
  \/ \E notificationData \in NotificationBodies :
       parseNotification(notificationData)

SpecNotify == Init /\ [][NextNotify]_vars

(***************************************************************************)
(* Properties of the notification operations                               *)
(***************************************************************************)

\* computeWebhookSignature(B) under the client's key.
WebhookSignature(notificationData) ==
  calculateSignatureSimple(calculator.signatureKey, notificationData)

\* C2: verifyNotification returns true for a body and the webhook signature
\* of that body computed under the client's own key.
C2_VerifiesOwnSignature ==
  /\ last.op = "verifyNotification"
  /\ last.signature = WebhookSignature(last.notificationData)
  => last.pc = "returned" /\ last.verdict = TRUE

\* The webhook signature of a non-empty body under the client's key was
\* verified against that body.
C2_Witness ==
  /\ last.op = "verifyNotification"
  /\ last.notificationData # << >>
  /\ last.signature = WebhookSignature(last.notificationData)
  /\ last.verdict = TRUE

\* C3: verifyNotification returns false for every received signature that
\* is not, unit for unit, the webhook signature of the body under the
\* client's key; it returns, and throws nothing.
C3_RejectsEveryOtherSignature ==
  last.op = "verifyNotification" =>
    /\ last.pc = "returned"
    /\ ~last.error.thrown
    /\ last.signature # WebhookSignature(last.notificationData)
         => last.verdict = FALSE

\* The webhook signature of the body under another key was received, and
\* refused.
C3_Witness ==
  /\ last.op = "verifyNotification"
  /\ \E k \in SignatureKeys :
       /\ k # calculator.signatureKey
       /\ last.signature
            = calculateSignatureSimple(k, last.notificationData)
  /\ last.pc = "returned"
  /\ last.verdict = FALSE

\* A value has every field of PaymentNotification.
HasNotificationFields(value) ==
  /\ value.t = "obj"
  /\ \A f \in 1..Len(NotificationFields) :
       HasKey(value.kids, NotificationFields[f])

\* C7: parseNotification throws for every body that is not valid JSON and
\* for every body that lacks a required field, and what it returns has
\* every required field.
C7_RejectsMalformedNotifications ==
  last.op = "parseNotification" =>
    /\ last.notificationData \in MalformedBodies \cup IncompleteBodies
         => /\ last.pc = "thrown"
            /\ last.error = Error(InvalidNotification)
    /\ last.pc = "returned" => HasNotificationFields(last.value)

\* What parseNotification does keep of C7: it throws for every body that is
\* not valid JSON.
C7_RejectsInvalidJson ==
  /\ last.op = "parseNotification"
  /\ last.notificationData \in MalformedBodies
  => last.pc = "thrown" /\ last.error = Error(InvalidNotification)

\* C8: parseNotification of the JSON serialization of a valid notification
\* returns that notification, field by field, its status as it was sent.
C8_ParseInvertsSerialize ==
  \A n \in Notifications :
    /\ last.op = "parseNotification"
    /\ last.notificationData \in { JsonStringify(n) }
    => /\ last.pc = "returned"
       /\ last.value.t = "obj"
       /\ \A f \in 1..Len(NotificationFields) :
            Get(last.value.kids, NotificationFields[f])
              = Get(n.kids, NotificationFields[f])
       /\ last.value = n

\* The serialization of a notification whose texts need escapes was
\* parsed.
C8_Witness ==
  /\ last.op = "parseNotification"
  /\ last.pc = "returned"
  /\ \E n \in Notifications :
       /\ last.notificationData = JsonStringify(n)
       /\ Contains(last.notificationData, << "\\" >>)
       /\ last.value = n

(***************************************************************************)
(* calculateSignature called on the calculator directly                    *)
(***************************************************************************)

\* The largest number of keys set on a header map or a parameter map.
MaxKeys == 2

\* The key-value pairs a caller sets: keys that differ in case only, and
\* keys that are array indices, which an object enumerates before its other
\* keys whatever the order they were set in.
HeaderPairs ==
  { << << "b" >>, << "1" >> >>, << << "B" >>, << "2" >> >>,
    << << "1", "0" >>, << "3" >> >>, << << "9" >>, << "4" >> >> }

\* The pairs set on a parameter map.
ParameterPairs == { << << "b" >>, << "1" >> >>, << << "B" >>, << "2" >> >> }

\* The orders in which at most n pairs with distinct keys can be set.
PairLists(pairs, n) ==
  { list \in UNION { [1..k -> pairs] : k \in 0..n } :
      \A i, j \in 1..Len(list) : list[i][1] = list[j][1] => i = j }

\* The Record<string, string> a caller builds by setting the pairs in order.
RecordOf(list) ==
  FromPairs([i \in 1..Len(list) |-> << list[i][1], JStr(list[i][2]) >>])

\* The set of key-value pairs an object holds.
PairsOf(obj) == { obj[i] : i \in 1..Len(obj) }

FixedHeaders == << << K_ApiKey, << "a", "k" >> >>, << K_IdempotencyKey, << "i",
    "d" >> >> >>

SignedBody ==
  << "{", "\"", "a", "m", "o", "u", "n", "t", "\"", ":", "1", "0", "0", "}" >>

\* Another body, of the same length.
OtherBody == << "{", "\"", "a", "m", "o", "u", "n", "t", "\"", ":", "2", "0",
                "0", "}" >>

\* A map of one pair.
OnePair(key, value) == RecordOf(<< << key, value >> >>)

\* Calls that differ from a call of the maps above in one value, in the
\* body alone, or in a key named __proto__ (an own property of the map,
\* as JSON.parse or a computed key makes it); and two calls whose values
\* are a surrogate on its own and the replacement character.
VariedInputs ==
  { << OnePair(<< "b" >>, << "x" >>), << >>, SignedBody >>,
    << RecordOf(FixedHeaders), OnePair(<< "b" >>, << "x" >>), SignedBody >>,
    << RecordOf(FixedHeaders), << >>, OtherBody >>,
    << RecordOf(FixedHeaders), OnePair(ProtoKey, << "x" >>), SignedBody >>,
    << OnePair(<< "b" >>, << HighSurrogate >>), << >>, SignedBody >>,
    << OnePair(<< "b" >>, << "U+FFFD" >>), << >>, SignedBody >> }

\* What a caller passes: header maps in every order with no parameters,
\* parameter maps in every order under the headers of a payment, and the
\* varied calls.
SignInputs ==
  { << RecordOf(h), << >>, SignedBody >> :
      h \in PairLists(HeaderPairs, MaxKeys) }
    \cup { << RecordOf(FixedHeaders), RecordOf(p), SignedBody >> :
             p \in PairLists(ParameterPairs, MaxKeys) }
    \cup VariedInputs

\* calculator.calculateSignature(headers, parameters, body).  The two most
\* recent calls are kept.
SignDirectly(headers, parameters, body) ==
  LET call == [headers |-> headers, parameters |-> parameters,
               body |-> body,
               signature |-> calculateSignature(calculator.signatureKey,
                                                headers, parameters, body)]
  IN /\ signed' = IF signed = << >> THEN << call >>
                  ELSE << signed[Len(signed)], call >>
     /\ UNCHANGED << config, client, calculator, uuids, calls, requests,
                     last >>

NextSig ==
  \E input \in SignInputs : SignDirectly(input[1], input[2], input[3])

\* The calculator that has calculateSignature(headers, parameters, body) is
\* the one of the header-signed revision.
InitSig == Init /\ client.revision = "header-signed"

SpecSig == InitSig /\ [][NextSig]_vars

\* C1: two calls with the same body whose header maps hold the same pairs
\* and whose parameter maps hold the same pairs return the same signature,
\* whatever the order the pairs were set in.
C1_InsertionOrderIndependent ==
  \A i, j \in 1..Len(signed) :
    /\ PairsOf(signed[i].headers) = PairsOf(signed[j].headers)
    /\ PairsOf(signed[i].parameters) = PairsOf(signed[j].parameters)
    /\ signed[i].body = signed[j].body
    => signed[i].signature = signed[j].signature

\* Two calls were made whose header maps hold the same two pairs and
\* enumerate them in different orders.
C1_Witness ==
  /\ Len(signed) = 2
  /\ PairsOf(signed[1].headers) = PairsOf(signed[2].headers)
  /\ signed[1].headers # signed[2].headers
  /\ signed[1].signature = signed[2].signature

(***************************************************************************)
(* The four operations of one client, interleaved                          *)
(***************************************************************************)

\* How the transport settles a request, in short: a payment, a response
\* without a body, a timeout.
InterleavedOutcomes == { Created, OkNull, TimedOut }

\* The payment requested.
InterleavedPaymentRequest ==
  JObj(FromPairs(<<
    << << "a", "m", "o", "u", "n", "t" >>, JNum(1000) >>,
    << << "e", "x", "t", "e", "r", "n", "a", "l", "I", "d" >>, JStr(<< "o",
        "1" >>) >>,
    << << "d", "e", "s", "c", "r", "i", "p", "t", "i", "o", "n" >>,
        JStr(<< "d" >>) >>,
    << << "b", "u", "y", "e", "r" >>,
       JObj(FromPairs(<< << << "e", "m", "a", "i", "l" >>, JStr(<< "a", "@",
           "b" >>) >> >>)) >> >>))

\* The body of a notification.
InterleavedNotification ==
  JsonStringify(Notification(<< "P", "1" >>, << "o", "1" >>, << "N", "E",
      "W" >>, << "T" >>))

\* The body of a notification, and a body that is no JSON.
InterleavedBodies == { InterleavedNotification, << "n", "o", "t", " ", "j",
    "s", "o", "n" >> }

\* The signature of the notification under one key, which is the key of
\* some clients and not of the others.
InterleavedSignature ==
  calculateSignatureSimple(<< "k", "1" >>, InterleavedNotification)

NextInterleaved ==
  \/ createPayment(InterleavedPaymentRequest)
  \/ \E paymentId \in PaymentIds : getPaymentStatus(paymentId)
  \/ \E n \in 1..MaxCalls, outcome \in InterleavedOutcomes :
       Settle(n, outcome)
  \/ verifyNotification(InterleavedSignature, InterleavedNotification)
  \/ \E notificationData \in InterleavedBodies :
       parseNotification(notificationData)

SpecInterleaved == Init /\ [][NextInterleaved]_vars

\* The request a call issues when it is the only call ever made on a client
\* constructed from the configuration, given the idempotency key it drew.
RequestAlone(call) ==
  IF call.op = "createPayment"
  THEN CreatePaymentRequest(NewPaynowClient(config, client.revision),
                            NewSignatureCalculator(config.signatureKey),
                            call.idempotencyKey, call.paymentRequest)
  ELSE GetPaymentStatusRequest(NewPaynowClient(config, client.revision),
                               call.paymentId)

\* What a call is when it is the only call ever made and the transport
\* settles its request with the outcome the call has.
SettledAlone(call) ==
  Settled(Awaiting(call.op, call.paymentRequest, call.paymentId,
                   call.idempotencyKey),
          call.outcome)

\* The verifyNotification or parseNotification call made alone on a client
\* constructed from the configuration, with the arguments of call.
NotificationCallAlone(call) ==
  IF call.op = "verifyNotification"
  THEN VerifyNotificationCall(NewSignatureCalculator(config.signatureKey),
                              call.signature, call.notificationData)
  ELSE ParseNotificationCall(call.notificationData)

\* C11: in every step of any interleaving of the four operations, the
\* credentials and the endpoint configuration of the client stay what the
\* constructor made them; a request issued is the request its call issues
\* alone; a call that settles ends as it ends alone on the same outcome; a
\* verifyNotification or parseNotification call returns or throws what it
\* does alone; and no step touches the request or the result of another
\* call.
C11_InterleavedCallsRunAsAlone ==
  [][/\ config' = config /\ client' = client /\ calculator' = calculator
     /\ client' = NewPaynowClient(config, client.revision)
     /\ Len(requests') >= Len(requests)
     /\ SubSeq(requests', 1, Len(requests)) = requests
     /\ \A i \in (Len(requests) + 1)..Len(requests') :
          requests'[i].http = RequestAlone(calls'[requests'[i].call])
     /\ Len(calls') >= Len(calls)
     /\ \A n \in 1..Len(calls) :
          \/ calls'[n] = calls[n]
          \/ /\ calls[n].pc = "awaiting"
             /\ calls'[n].pc # "awaiting"
             /\ calls'[n] = SettledAlone(calls'[n])
     /\ last' # last => last' = NotificationCallAlone(last')]_vars

\* A createPayment call and a getPaymentStatus call overlap: the later one
\* has returned while the earlier one still awaits its response, and a
\* notification was parsed meanwhile.
C11_Witness ==
  /\ Len(calls) = 2
  /\ calls[1].op # calls[2].op
  /\ calls[1].pc = "awaiting"
  /\ calls[2].pc = "returned"
  /\ last.op = "parseNotification"
  /\ last.pc = "returned"

(***************************************************************************)
(* The endpoint of a client                                                *)
(***************************************************************************)

\* The base the configuration asks for: production exactly when the
\* environment is 'production', sandbox when it is 'sandbox' or left out.
BaseOf(cfg) ==
  IF cfg.environment = "production"
  THEN << "h", "t", "t", "p", "s", ":", "/", "/", "a", "p", "i", ".", "p", "a",
      "y", "n", "o", "w", ".", "p", "l", "/", "v", "3" >>
  ELSE << "h", "t", "t", "p", "s", ":", "/", "/", "a", "p", "i", ".", "s", "a",
      "n", "d", "b", "o", "x", ".", "p", "a", "y", "n", "o", "w", ".", "p",
      "l", "/", "v", "3" >>

\* C12: the base endpoint of a client is https://api.paynow.pl/v3 exactly
\* when its configuration says 'production' and
\* https://api.sandbox.paynow.pl/v3 when it says 'sandbox' or nothing, and
\* the URL of every createPayment and getPaymentStatus request is that
\* base followed by the path of the operation.
C12_RequestsGoToConfiguredBase ==
  /\ config.environment \in { "sandbox", "production", "undefined" }
  /\ client.apiClient.baseURL = BaseOf(config)
  /\ \A i \in 1..Len(requests) :
       requests[i].http.url =
         BaseOf(config) \o
           (IF calls[requests[i].call].op = "createPayment"
            THEN << "/", "p", "a", "y", "m", "e", "n", "t", "s" >>
            ELSE << "/", "p", "a", "y", "m", "e", "n", "t", "s",
                "/" >> \o calls[requests[i].call].paymentId)

\* A client configured for production has issued a createPayment request
\* and, later, a getPaymentStatus request.
C12_Witness ==
  /\ config.environment = "production"
  /\ Len(requests) = 2
  /\ requests[1].http.method = "POST"
  /\ requests[2].http.method = "GET"
  /\ StartsWith(requests[2].http.url, 1, << "h", "t", "t", "p", "s", ":", "/",
      "/", "a", "p", "i", ".", "p", "a", "y", "n", "o", "w", ".", "p", "l",
      "/", "v", "3", "/" >>)

(***************************************************************************)
(* How a call ends                                                         *)
(***************************************************************************)

\* The PaymentResponse createPayment makes of the data of a response.
PaymentResponseOf(data) ==
  JObj(FromPairs(<<
    << K_paymentId, Property(data, K_paymentId) >>,
    << K_redirectUrl, Property(data, K_redirectUrl) >>,
    << K_status, Property(data, K_status) >> >>))

LexicographicObject(obj) ==
  LET keys == SortKeys(ObjectKeys(obj))
  IN << "{" >>
       \o Join([i \in 1..Len(keys) |->
                  Quote(keys[i]) \o << ":" >> \o Quote(Get(obj, keys[i]).s)],
               << "," >>)
       \o << "}" >>

\* The canonical payload as the specification words it: headers, parameters
\* and body in that order, the keys of each map in lexicographic order.
LexicographicPayload(headers, parameters, body) ==
  << "{", "\"", "h", "e", "a", "d", "e", "r", "s", "\"",
      ":" >> \o LexicographicObject(headers)
    \o << ",", "\"", "p", "a", "r", "a", "m", "e", "t", "e", "r", "s", "\"",
        ":" >> \o LexicographicObject(parameters)
    \o << ",", "\"", "b", "o", "d", "y", "\"",
        ":" >> \o Quote(body) \o << "}" >>

\* No key of the map is an array index.
NoArrayIndexKey(obj) == \A i \in 1..Len(obj) : ~IsArrayIndex(obj[i][1])

\* C14: the payload calculateSignature signs is, for every header map and
\* parameter map, the object of headers, parameters and body in that order,
\* the keys of each map in ascending lexicographic order, serialized with
\* no white space; an empty map is an empty object.
C14_PayloadIsLexicographic ==
  \A i \in 1..Len(signed) :
    signed[i].signature =
      HmacSha256Base64(calculator.signatureKey,
        LexicographicPayload(signed[i].headers, signed[i].parameters,
                             signed[i].body))

\* What calculateSignature keeps of C14: the payload is the lexicographic
\* one for the maps none of whose keys is the decimal text of an integer
\* or __proto__.
C14_LexicographicWithoutArrayIndexKeys ==
  \A i \in 1..Len(signed) :
    /\ NoArrayIndexKey(signed[i].headers)
    /\ NoArrayIndexKey(signed[i].parameters)
    /\ ~HasKey(signed[i].headers, ProtoKey)
    /\ ~HasKey(signed[i].parameters, ProtoKey)
    => signed[i].signature =
         HmacSha256Base64(calculator.signatureKey,
           LexicographicPayload(signed[i].headers, signed[i].parameters,
                                signed[i].body))


\* ------------------------------------------------------------------------
\* Repeatable and distinguishing signatures
\* ------------------------------------------------------------------------

\* Two calls were given the same input: header maps of the same pairs,
\* parameter maps of the same pairs, and the same body.
SameInput(a, b) ==
  /\ PairsOf(a.headers) = PairsOf(b.headers)
  /\ PairsOf(a.parameters) = PairsOf(b.parameters)
  /\ a.body = b.body

\* No key of the maps of a call is __proto__.
NoProtoKey(a) ==
  ~HasKey(a.headers, ProtoKey) /\ ~HasKey(a.parameters, ProtoKey)

\* C15: under one signature key, two calls of calculateSignature return the
\* same signature when they were given the same headers, parameters and
\* body, and different signatures (the HMAC taken collision-free, so
\* different canonical payloads) when they differ in a header key or
\* value, a parameter key or value, or the body.
C15_SameSignatureForSameInputOnly ==
  \A i, j \in 1..Len(signed) :
    SameInput(signed[i], signed[j])
      <=> signed[i].signature = signed[j].signature

\* The half of C15 that holds of every call: the same input gives the same
\* signature.
C15_Repeatable ==
  \A i, j \in 1..Len(signed) :
    SameInput(signed[i], signed[j])
      => signed[i].signature = signed[j].signature

\* The other half holds of calls none of whose keys is __proto__: they
\* return different signatures when their inputs differ.
C15_DistinctWithoutProtoKey ==
  \A i, j \in 1..Len(signed) :
    (NoProtoKey(signed[i]) /\ NoProtoKey(signed[j])
       /\ ~SameInput(signed[i], signed[j]))
      => signed[i].signature # signed[j].signature

\* Two calls that differ in one value of a header, in one value of a
\* parameter, or in the body alone were made one after the other.
C15_DifferInOneValue ==
  /\ Len(signed) = 2
  /\ \/ /\ signed[1].body # signed[2].body
        /\ signed[1].headers = signed[2].headers
        /\ signed[1].parameters = signed[2].parameters
     \/ /\ signed[1].body = signed[2].body
        /\ signed[1].parameters = signed[2].parameters
        /\ ObjectKeys(signed[1].headers) = ObjectKeys(signed[2].headers)
        /\ signed[1].headers # signed[2].headers
     \/ /\ signed[1].body = signed[2].body
        /\ signed[1].headers = signed[2].headers
        /\ ObjectKeys(signed[1].parameters)
             = ObjectKeys(signed[2].parameters)
        /\ signed[1].parameters # signed[2].parameters
=============================================================================
